---- MODULE Spec2Model ----
(***************************************************************************)
(* SpWNode: the LiteX CSR bridge around the amaranth-spacewire node.       *)
(*                                                                         *)
(* The model has two phases.  At build time do_finalize runs the external  *)
(* generator once (elaborate), registers the generated Verilog and adds    *)
(* the core instance.  Once finalized, the gateware is a synchronous       *)
(* circuit: every step of ClockIdle / ClockWrite / ClockRead is one rising *)
(* edge of the "sys" clock.  A state is one clock cycle:                   *)
(*   - bus   : the CSR bus access presented to the bank in this cycle,     *)
(*   - core  : the outputs of the hardware core in this cycle,             *)
(*   - the flip-flops of the CSRs (CSRStorage.storage, CSRStorage.re) and  *)
(*     of the bank (dat_r),                                                *)
(* and every combinational signal of the bridge is an operator over that   *)
(* state.  The CSR bus word is 32 bits, so each register is one word.      *)
(***************************************************************************)
EXTENDS Integers, Sequences, FiniteSets

VARIABLES pc, time_master, argv, calls, exit_status, raised, sources, specials,
          control_storage, control_re, fifo_w_storage, fifo_w_re, dat_r,
          bus, core

build_vars == <<pc, time_master, argv, calls, exit_status, raised, sources, specials>>
csr_vars == <<control_storage, control_re, fifo_w_storage, fifo_w_re, dat_r>>
vars == <<pc, time_master, argv, calls, exit_status, raised, sources, specials,
          control_storage, control_re, fifo_w_storage, fifo_w_re, dat_r,
          bus, core>>

(***************************************************************************)
(* Bounds                                                                  *)
(***************************************************************************)
\* exit statuses of the generator process are drawn from 0..MaxExit
MaxExit == 2
\* the core's outputs in a cycle are drawn from the vectors Sample(0..MaxSample)
MaxSample == 3

\* values the host puts on the bus data lines (some wider than the register)
WriteData == {0, 1, 6, 32, 85, 255, 341}

Pow2(n) == 2 ^ n

\* bits [offset, offset+size) of a register word
Field(word, offset, size) == (word \div Pow2(offset)) % Pow2(size)

(***************************************************************************)
(* The hardware core (black box): its outputs                              *)
(***************************************************************************)
Sample(k) ==
    [ r_rdy            |-> k % 2,
      w_rdy            |-> (k \div 2) % 2,
      r_data           |-> (85 * (k + 1)) % Pow2(8),
      link_state       |-> (3 * k + 1) % Pow2(3),
      link_error_flags |-> (5 * k + 2) % Pow2(4),
      link_tx_credit   |-> (21 * k + 5) % Pow2(6),
      link_rx_credit   |-> (13 * k + 60) % Pow2(6),
      time_value       |-> (17 * k + 3) % Pow2(6),
      time_flags       |-> (k + 1) % Pow2(2) ]

CoreOutputs == { Sample(k) : k \in 0..MaxSample }

(***************************************************************************)
(* The register map and the CSR bus                                        *)
(***************************************************************************)
\* the CSRs of the module, as AutoCSR collects them
get_csrs == {"status", "time", "fifo_r", "control", "fifo_w"}

Idle == [op |-> "idle", reg |-> "none", data |-> 0]

BusAccesses ==
    {Idle}
    \cup [op : {"read"}, reg : get_csrs, data : {0}]
    \cup [op : {"write"}, reg : {"control", "fifo_w"}, data : WriteData]
    \cup [op : {"write"}, reg : {"status", "time", "fifo_r"}, data : {255}]

\* CSR.re of a register's word: the bank addresses it with we = 1
sc_re(reg) == IF bus.op = "write" /\ bus.reg = reg THEN 1 ELSE 0
\* CSR.we of a register's word: the bank addresses it with we = 0
sc_we(reg) == IF bus.op = "read" /\ bus.reg = reg THEN 1 ELSE 0

(***************************************************************************)
(* Build time                                                              *)
(***************************************************************************)
verilog_filename == "gateware/amaranth_spacewire.v"

cli_params(tm) ==
    (IF tm THEN <<"--time-master">> ELSE <<>>)
    \o <<"--src-freq", "--rx-tokens", "--tx-tokens", "--reset-freq",
         "--user-freq", "generate", "--type=v">>

\* the outcome of elaborate for an exit status rc of the generator
\* elaborate without the check of the exit status
elaborate_ignoring_status(rc) == "ok"

elaborate(rc) == IF rc # 0 THEN "OSError" ELSE "ok"

Init ==
    /\ pc = "constructed"
    /\ time_master \in BOOLEAN
    /\ argv = <<>>
    /\ calls = 0
    /\ exit_status = 0
    /\ raised = FALSE
    /\ sources = <<>>
    /\ specials = 0
    /\ control_storage = 0
    /\ control_re = 0
    /\ fifo_w_storage = 0
    /\ fifo_w_re = 0
    /\ dat_r = 0
    /\ bus = Idle
    /\ core \in CoreOutputs

DoFinalize ==
    /\ pc = "constructed"
    /\ \E rc \in 0..MaxExit :
         /\ argv' = cli_params(time_master)
         /\ calls' = calls + 1
         /\ exit_status' = rc
         /\ IF elaborate(rc) = "OSError"
            THEN /\ raised' = TRUE
                 /\ pc' = "failed"
                 /\ UNCHANGED <<sources, specials>>
            ELSE /\ raised' = FALSE
                 /\ sources' = Append(sources, verilog_filename)
                 /\ specials' = specials + 1
                 /\ pc' = "finalized"
    /\ UNCHANGED <<time_master, csr_vars, bus, core>>

(***************************************************************************)
(* Run time: the combinational signals of a cycle                          *)
(***************************************************************************)
\* fields of the status register, driven from the core's outputs
\* data_available wired to the write side of the FIFO
status_data_available_from_w_rdy == core.w_rdy % Pow2(1)

status_data_available == core.r_rdy % Pow2(1)
status_link_state == core.link_state % Pow2(4)
status_link_error_flags == core.link_error_flags % Pow2(4)
status_link_tx_credit == core.link_tx_credit % Pow2(6)
status_link_rx_credit == core.link_rx_credit % Pow2(6)

\* the word the host reads at the status register
status_w ==
    status_data_available * Pow2(0)
    + status_link_state * Pow2(1)
    + status_link_error_flags * Pow2(5)
    + status_link_tx_credit * Pow2(9)
    + status_link_rx_credit * Pow2(15)

\* fields of the time register: no statement drives them, they keep their
\* reset value
time_time == 0
time_flags == 0

time_w == time_time * Pow2(0) + time_flags * Pow2(6)

\* field of the receive-data register
fifo_r_data_r == core.r_data % Pow2(8)

fifo_r_w == fifo_r_data_r * Pow2(0)

\* CSRStatus.we of the receive-data register
fifo_r_we == sc_we("fifo_r")

\* fields of the control register: a pulse field follows its storage bit
\* only while CSRStorage.re is high, a level field always
\* soft_reset declared without pulse=True
control_soft_reset_level == Field(control_storage, 0, 1)

control_soft_reset == IF control_re = 1 THEN Field(control_storage, 0, 1) ELSE 0
control_link_disabled == Field(control_storage, 1, 1)
\* link_start interlocked with link_disabled
control_link_start_interlocked ==
    IF Field(control_storage, 1, 1) = 1 THEN 0 ELSE Field(control_storage, 2, 1)

control_link_start == Field(control_storage, 2, 1)
control_auto_start == Field(control_storage, 3, 1)
control_user_freq == Field(control_storage, 4, 1)
control_link_error_clear == IF control_re = 1 THEN Field(control_storage, 5, 1) ELSE 0

\* field of the transmit-data register
fifo_w_data_w == Field(fifo_w_storage, 0, 8)

\* control inputs of the core
soft_reset == control_soft_reset
link_disabled == control_link_disabled
link_start == control_link_start
autostart == control_auto_start
switch_to_user_tx_freq == control_user_freq
link_error_clear == control_link_error_clear

\* FIFO inputs of the core
\* w_en gated by the FIFO's write-ready
w_en_when_ready == IF core.w_rdy = 1 THEN fifo_w_re ELSE 0

\* r_en driven from the write strobe of the receive-data register
r_en_from_re == sc_re("fifo_r")

w_en == fifo_w_re
w_data == fifo_w_data_w
r_en == fifo_r_we

\* the word a register presents to the bank for a read
csr_w(reg) ==
    CASE reg = "status" -> status_w
      [] reg = "time" -> time_w
      [] reg = "fifo_r" -> fifo_r_w
      [] reg = "control" -> control_storage
      [] reg = "fifo_w" -> fifo_w_storage

(***************************************************************************)
(* Run time: the flip-flops at a clock edge                                *)
(***************************************************************************)
\* CSRStorage.storage: loaded with the low bits of the bus data on a write
storage_next(reg, storage, size) ==
    IF sc_re(reg) = 1 THEN bus.data % Pow2(size) ELSE storage

\* CSRStorage.re: the write strobe, one cycle after the bus write
\* one write strobe shared by all the registers
re_next_shared(reg) == IF bus.op = "write" THEN 1 ELSE 0

re_next(reg) == sc_re(reg)

\* read data of the bank, returned to the host in the cycle after the read
dat_r_next == IF bus.op = "read" THEN csr_w(bus.reg) ELSE 0

Edge ==
    /\ control_storage' = storage_next("control", control_storage, 6)
    /\ control_re' = re_next("control")
    /\ fifo_w_storage' = storage_next("fifo_w", fifo_w_storage, 8)
    /\ fifo_w_re' = re_next("fifo_w")
    /\ dat_r' = dat_r_next
    /\ bus' \in BusAccesses
    /\ core' \in CoreOutputs
    /\ UNCHANGED build_vars

\* a clock edge in a cycle without a bus access
ClockIdle == pc = "finalized" /\ bus.op = "idle" /\ Edge

\* a clock edge in a cycle where the host writes a register
ClockWrite == pc = "finalized" /\ bus.op = "write" /\ Edge

\* a clock edge in a cycle where the host reads a register
ClockRead == pc = "finalized" /\ bus.op = "read" /\ Edge

Next == DoFinalize \/ ClockIdle \/ ClockWrite \/ ClockRead

Spec == Init /\ [][Next]_vars

TypeOK ==
    /\ pc \in {"constructed", "failed", "finalized"}
    /\ control_storage \in 0..63
    /\ fifo_w_storage \in 0..255
    /\ control_re \in 0..1
    /\ fifo_w_re \in 0..1
    /\ bus \in BusAccesses
    /\ core \in CoreOutputs

(***************************************************************************)
(* Properties                                                              *)
(***************************************************************************)
IsWrite(reg) == bus.op = "write" /\ bus.reg = reg
IsRead(reg) == bus.op = "read" /\ bus.reg = reg

\* C1: each pulse control signal (soft_reset, link_error_clear) is high in
\* exactly the one cycle that follows a control-register write whose bit for
\* that field is 1: a write with the bit at 0 never asserts it, the cycle
\* after the pulse is low again unless a further such write was issued during
\* the pulse, and without a control write the signal stays low however long
\* the bit stays set in the storage.
C1_PulseOneCycle ==
    /\ [][(soft_reset' = 1)
            <=> (IsWrite("control") /\ Field(bus.data, 0, 1) = 1)]_vars
    /\ [][(link_error_clear' = 1)
            <=> (IsWrite("control") /\ Field(bus.data, 5, 1) = 1)]_vars
    /\ [][(soft_reset = 1 /\ ~IsWrite("control")) => soft_reset' = 0]_vars
    /\ [][(link_error_clear = 1 /\ ~IsWrite("control")) => link_error_clear' = 0]_vars
    /\ [](control_re = 0 => (soft_reset = 0 /\ link_error_clear = 0))

\* the pulse is over while the host has left both bits set
C1_Witness ==
    /\ Field(control_storage, 0, 1) = 1
    /\ Field(control_storage, 5, 1) = 1
    /\ control_re = 0
    /\ soft_reset = 0
    /\ link_error_clear = 0

\* C2: in every cycle each field of the status register, as declared and as
\* the host finds it in the register word, equals the core signal mapped to
\* it in that cycle.
C2_StatusMirror ==
    /\ status_data_available = core.r_rdy
    /\ status_link_state = core.link_state
    /\ status_link_error_flags = core.link_error_flags
    /\ status_link_tx_credit = core.link_tx_credit
    /\ status_link_rx_credit = core.link_rx_credit
    /\ Field(status_w, 0, 1) = core.r_rdy
    /\ Field(status_w, 1, 4) = core.link_state
    /\ Field(status_w, 5, 4) = core.link_error_flags
    /\ Field(status_w, 9, 6) = core.link_tx_credit
    /\ Field(status_w, 15, 6) = core.link_rx_credit

\* the host reads the status register while data is available and the
\* transmit FIFO is full
C2_Witness ==
    /\ IsRead("status")
    /\ core.r_rdy = 1
    /\ core.w_rdy = 0
    /\ status_data_available = 1
    /\ control_storage # 0

\* C3: w_en is high in exactly the cycles that follow a host write to the
\* transmit-data register, one cycle per write, with the written byte on
\* w_data in that cycle, whatever w_rdy is.
C3_WriteStrobe ==
    /\ [][(w_en' = 1) <=> IsWrite("fifo_w")]_vars
    /\ [][IsWrite("fifo_w") => w_data' = bus.data % Pow2(8)]_vars
    /\ [](w_en = 1 <=> fifo_w_re = 1)

\* the byte 0x55 is strobed into a FIFO that is not ready
C3_Witness == w_en = 1 /\ w_data = 85 /\ core.w_rdy = 0

\* C4: r_en is high in exactly the cycles in which the host reads the
\* receive-data register, one cycle per read, and the value returned for the
\* read is r_data of that cycle, before the dequeue takes effect.
C4_ReadStrobe ==
    /\ []((r_en = 1) <=> IsRead("fifo_r"))
    /\ [][IsRead("fifo_r") => dat_r' = core.r_data]_vars

\* the host holds the byte it read while the core already shows another one
C4_Witness == dat_r = 170 /\ core.r_data = 255 /\ r_en = 0

\* C5: in every cycle some field of the status register equals the core's
\* w_rdy signal.
C5_WriteReadyVisible ==
    pc = "finalized" =>
        \E f \in {status_data_available, status_link_state,
                  status_link_error_flags, status_link_tx_credit,
                  status_link_rx_credit} : f = core.w_rdy

\* C6: with time_master set, the fields of the time register equal the core's
\* time_value and time_flags in every cycle.
C6_TimeMirror ==
    (pc = "finalized" /\ time_master) =>
        (time_time = core.time_value /\ time_flags = core.time_flags)

\* C7: with time_master clear, the time register is not in the register map.
C7_TimeAbsentWhenDisabled == ~time_master => "time" \notin get_csrs

\* C8: a non-zero exit status of the generator always ends do_finalize with
\* the error raised, no source registered and no instance added; a zero exit
\* status ends it with the artifact registered once and exactly one instance;
\* the generator is run at most once.
C8_ElaborateFailsLoudly ==
    /\ calls <= 1
    /\ pc = "constructed" =>
          (calls = 0 /\ ~raised /\ sources = <<>> /\ specials = 0)
    /\ (calls = 1 /\ exit_status # 0) =>
          (pc = "failed" /\ raised /\ sources = <<>> /\ specials = 0)
    /\ (calls = 1 /\ exit_status = 0) =>
          (pc = "finalized" /\ ~raised /\ sources = <<verilog_filename>>
           /\ specials = 1)
    /\ (sources # <<>> \/ specials # 0) => (calls = 1 /\ exit_status = 0)

\* the generator has exited with a non-zero status
C8_Witness == calls = 1 /\ exit_status = 2 /\ raised /\ pc = "failed"

\* C9: in every cycle the level control inputs of the core equal the level
\* bits of the control storage; they take the written bits in the cycle after
\* a control-register write and keep them until the next one, for every
\* written combination.
C9_LevelControls ==
    /\ [](/\ link_disabled = Field(control_storage, 1, 1)
          /\ link_start = Field(control_storage, 2, 1)
          /\ autostart = Field(control_storage, 3, 1)
          /\ switch_to_user_tx_freq = Field(control_storage, 4, 1))
    /\ [][IsWrite("control") =>
            /\ link_disabled' = Field(bus.data, 1, 1)
            /\ link_start' = Field(bus.data, 2, 1)
            /\ autostart' = Field(bus.data, 3, 1)
            /\ switch_to_user_tx_freq' = Field(bus.data, 4, 1)]_vars
    /\ [][~IsWrite("control") =>
            /\ link_disabled' = link_disabled
            /\ link_start' = link_start
            /\ autostart' = autostart
            /\ switch_to_user_tx_freq' = switch_to_user_tx_freq]_vars

\* link_start and link_disabled are both held set, cycles after the write
C9_Witness ==
    /\ link_start = 1
    /\ link_disabled = 1
    /\ autostart = 0
    /\ control_re = 0
    /\ ~IsWrite("control")

\* C10: a write to the transmit-data register or a read of the receive-data
\* or status register leaves the four level controls as they were and asserts
\* neither soft_reset nor link_error_clear; a write to the control register
\* asserts neither w_en nor r_en and leaves w_data as it was; a read of the
\* status or time register does not assert r_en.
C10_Frame ==
    /\ [][(IsWrite("fifo_w") \/ IsRead("fifo_r") \/ IsRead("status")) =>
            /\ link_disabled' = link_disabled
            /\ link_start' = link_start
            /\ autostart' = autostart
            /\ switch_to_user_tx_freq' = switch_to_user_tx_freq
            /\ soft_reset' = 0
            /\ link_error_clear' = 0]_vars
    /\ [][IsWrite("control") => (w_en' = 0 /\ w_data' = w_data)]_vars
    /\ []((IsWrite("control") \/ IsRead("status") \/ IsRead("time")) => r_en = 0)

\* a transmit-data write has taken effect while the control storage holds
\* both pulse bits and a byte was already in the transmit-data register
C10_Witness ==
    /\ fifo_w_re = 1
    /\ control_storage = 63
    /\ soft_reset = 0
    /\ link_error_clear = 0
    /\ link_start = 1

====
